---- MODULE Spec2Model ----
(***************************************************************************)
(* A model of confix (src/confix.py): a tool that keeps configuration      *)
(* files in a repository directory and replaces the originals by symbolic  *)
(* links into it.                                                          *)
(*                                                                         *)
(* Paths are sequences of one-character strings, so that the path mapping  *)
(* (maskHome, unmaskHome, normpath, join) is computed as the code computes *)
(* it.  The filesystem is a function from the locations the operations     *)
(* touch (the tracked paths and their repository paths) to what is there:  *)
(* nothing, a regular file with a content, a directory, or a symbolic link *)
(* with a target.  Directory hierarchy is not modelled: the parents of the *)
(* tracked paths exist, and os.makedirs of a repository or backup parent   *)
(* always succeeds and is not visible in the state.  File metadata (mode,  *)
(* times, which shutil.copy2 preserves) is not modelled.                   *)
(*                                                                         *)
(* The program is single-threaded; each public method is one action.  An   *)
(* action takes as inputs the path, the force flag, the clock reading and  *)
(* the operating-system call that fails (if any); the state it leaves is   *)
(* the state the method leaves when it returns or raises.                  *)
(***************************************************************************)
EXTENDS Integers, Sequences, FiniteSets, TLC

VARIABLES
  fs,       \* the filesystem: location -> entry
  backup,   \* the files under <rootDir>/backup: a set of backup records
  repoDir,  \* Confix.__repoDir, the configured repository location
  mergeTool,\* Confix.__mergeTool, the configured merge tool
  last      \* the last call: operation, arguments, outcome, the state before it,
            \* and the number of calls made so far

vars == <<fs, backup, repoDir, mergeTool, last>>

(***************************************************************************)
(* Bounds of the model.                                                    *)
(***************************************************************************)
\* a behaviour makes at most MaxOps calls
MaxOps == 2
\* the clock readings are 0..MaxTime, one tick being 30 seconds: readings 0
\* and 1 differ in the second, readings 0 and 2 in the minute
MaxTime == 2

Instants == 0..MaxTime

\* the file contents the model tells apart
Contents == {"c1", "c2"}
NoContent == "-"

(***************************************************************************)
(* Strings.                                                                *)
(***************************************************************************)
Sep == "/"

startswith(s, prefix) ==
  /\ Len(prefix) <= Len(s)
  /\ SubSeq(s, 1, Len(prefix)) = prefix

\* s[n:] of Python, n counted from 0
from(s, n) == SubSeq(s, n + 1, Len(s))

RECURSIVE replace(_, _, _)
\* str.replace(old, new): every non-overlapping occurrence, left to right
replace(s, old, new) ==
  IF Len(s) < Len(old) \/ old = <<>> THEN s
  ELSE IF startswith(s, old) THEN new \o replace(from(s, Len(old)), old, new)
  ELSE <<Head(s)>> \o replace(Tail(s), old, new)

RECURSIVE lstrip(_, _)
\* str.lstrip(c) for a single character c
lstrip(s, c) ==
  IF s # <<>> /\ Head(s) = c THEN lstrip(Tail(s), c) ELSE s

RECURSIVE splitFrom(_, _, _)
splitFrom(s, cur, acc) ==
  IF s = <<>> THEN Append(acc, cur)
  ELSE IF Head(s) = Sep THEN splitFrom(Tail(s), <<>>, Append(acc, cur))
  ELSE splitFrom(Tail(s), Append(cur, Head(s)), acc)

\* str.split('/')
split(s) == splitFrom(s, <<>>, <<>>)

RECURSIVE joinComps(_)
\* '/'.join(comps)
joinComps(comps) ==
  IF comps = <<>> THEN <<>>
  ELSE IF Len(comps) = 1 THEN comps[1]
  ELSE comps[1] \o <<Sep>> \o joinComps(Tail(comps))

DotDot == <<".", ".">>

RECURSIVE normComps(_, _, _)
\* the component loop of posixpath.normpath
normComps(comps, new, initial) ==
  IF comps = <<>> THEN new
  ELSE LET c == Head(comps) IN
    IF c = <<>> \/ c = <<".">> THEN normComps(Tail(comps), new, initial)
    ELSE IF \/ c # DotDot
            \/ (initial = 0 /\ new = <<>>)
            \/ (new # <<>> /\ new[Len(new)] = DotDot)
      THEN normComps(Tail(comps), Append(new, c), initial)
    ELSE IF new # <<>>
      THEN normComps(Tail(comps), SubSeq(new, 1, Len(new) - 1), initial)
    ELSE normComps(Tail(comps), new, initial)

\* os.path.normpath (POSIX)
normpath(path) ==
  IF path = <<>> THEN <<".">>
  ELSE
    LET initial == IF ~startswith(path, <<Sep>>) THEN 0
                   ELSE IF startswith(path, <<Sep, Sep>>) /\ ~startswith(path, <<Sep, Sep, Sep>>)
                     THEN 2
                   ELSE 1
        body == joinComps(normComps(split(path), <<>>, initial))
        r == [i \in 1..initial |-> Sep] \o body
    IN IF r = <<>> THEN <<".">> ELSE r

\* os.path.join(a, b)
join(a, b) ==
  IF startswith(b, <<Sep>>) THEN b
  ELSE IF a = <<>> \/ a[Len(a)] = Sep THEN a \o b
  ELSE a \o <<Sep>> \o b

RECURSIVE rstrip(_, _)
\* str.rstrip(c) for a single character c
rstrip(s, c) ==
  IF s # <<>> /\ s[Len(s)] = c THEN rstrip(SubSeq(s, 1, Len(s) - 1), c) ELSE s

RECURSIVE rfind(_, _)
\* str.rfind(c) + 1: the position of the last c, counted from 1, or 0
rfind(s, c) ==
  IF s = <<>> THEN 0
  ELSE IF s[Len(s)] = c THEN Len(s)
  ELSE rfind(SubSeq(s, 1, Len(s) - 1), c)

\* os.path.dirname (POSIX)
dirname(path) ==
  LET head == SubSeq(path, 1, rfind(path, Sep)) IN
  IF head # <<>> /\ (\E i \in 1..Len(head) : head[i] # Sep) THEN rstrip(head, Sep) ELSE head

(***************************************************************************)
(* The environment: $HOME, the working directory, the repository root the  *)
(* tests configure with setRepo, the tracked paths.                        *)
(***************************************************************************)
Home == <<"/", "h">>
Cwd == <<"/", "w">>
RepoRoot == <<"/", "r">>
PathA == <<"/", "h", "/", "a">>
PathB == <<"/", "e", "/", "b">>

Paths == {PathA, PathB}

\* os.path.abspath
abspath(path) == normpath(IF startswith(path, <<Sep>>) THEN path ELSE join(Cwd, path))

HomeToken == <<"/", "$", "H", "O", "M", "E">>

getUserHome == normpath(Home)

maskHome(filePath) ==
  LET homeDir == getUserHome IN
  IF startswith(filePath, homeDir)
    THEN normpath(HomeToken \o <<Sep>> \o from(filePath, Len(homeDir)))
    ELSE normpath(filePath)

unmaskHome(filePath) == normpath(replace(filePath, HomeToken, getUserHome))

\* Confix.__getRepoFilePath, rd being self.__repoDir
getRepoFilePath(rd, filePath) ==
  LET absFilePath == maskHome(abspath(filePath)) IN
  join(rd, lstrip(absFilePath, Sep))

\* The path functions, tabulated for the tracked paths and the repository
\* locations the model configures.
\* REPO as __createDefaultConfig writes it: no repository is configured
NoRepo == <<>>

RepoDirs == {normpath(RepoRoot), NoRepo}

AbsTable == [p \in Paths |-> abspath(p)]
\* the forms list() passes to __isLinked: the tracked paths, masked
MaskedPaths == {maskHome(abspath(p)) : p \in Paths}
UnmaskTable == [p \in Paths \cup MaskedPaths |-> unmaskHome(p)]
RepoTable == [rd \in RepoDirs, p \in Paths |-> getRepoFilePath(rd, p)]

absOf(p) == AbsTable[p]
unmaskedOf(p) == UnmaskTable[p]
repoFileOf(rd, p) == RepoTable[rd, p]

(***************************************************************************)
(* The filesystem.                                                         *)
(***************************************************************************)
Absent == [kind |-> "absent", content |-> NoContent, target |-> <<>>]
Dir == [kind |-> "dir", content |-> NoContent, target |-> <<>>]
File(c) == [kind |-> "file", content |-> c, target |-> <<>>]
SymLink(t) == [kind |-> "link", content |-> NoContent, target |-> t]

RepoPaths == {repoFileOf(normpath(RepoRoot), p) : p \in Paths}
Locs == Paths \cup RepoPaths

\* the location a path names: a relative path is relative to the working
\* directory of the process
locOf(x) == IF x # <<>> /\ x[1] = Sep THEN x ELSE normpath(join(Cwd, x))

\* what is at location l (nothing, for a location outside the model)
AtLoc(f, l) == IF l \in DOMAIN f THEN f[l] ELSE Absent

\* what is at the location x names; the locations of the filesystem are
\* absolute paths and name themselves
At(f, x) == IF x \in DOMAIN f THEN f[x] ELSE AtLoc(f, locOf(x))

\* what the symbolic link at location l points to: a relative target is
\* relative to the directory of the link
linkTarget(f, l) ==
  LET t == f[l].target IN
  IF t # <<>> /\ t[1] = Sep THEN t ELSE normpath(join(dirname(l), t))

RECURSIVE resolve(_, _, _)
resolve(f, x, n) ==
  IF x \in DOMAIN f
    THEN IF n > 0 /\ f[x].kind = "link" THEN resolve(f, linkTarget(f, x), n - 1) ELSE x
  ELSE IF locOf(x) \in DOMAIN f THEN resolve(f, locOf(x), n)
  ELSE locOf(x)

\* os.path.realpath: the location a chain of symbolic links ends at
realpath(f, x) == resolve(f, x, Cardinality(DOMAIN f))

\* os.path.islink
islink(f, x) == At(f, x).kind = "link"
\* os.path.exists, which follows symbolic links
exists(f, x) == At(f, realpath(f, x)).kind \in {"file", "dir"}
\* os.path.isfile, which follows symbolic links
isfile(f, x) == At(f, realpath(f, x)).kind = "file"
\* os.path.isdir, which follows symbolic links
isdir(f, x) == At(f, realpath(f, x)).kind = "dir"

(***************************************************************************)
(* Operating-system calls.  Each returns [ok, fired, fs]: whether it       *)
(* returned normally, whether it raised because the environment made it    *)
(* fail (fault names the call the environment fails), and the filesystem   *)
(* it leaves.                                                              *)
(***************************************************************************)
Faults == {"none", "copy", "backup", "remove", "symlink"}

Ok(f) == [ok |-> TRUE, fired |-> FALSE, fs |-> f]
Err(f) == [ok |-> FALSE, fired |-> FALSE, fs |-> f]
Fault(f) == [ok |-> FALSE, fired |-> TRUE, fs |-> f]

\* os.remove / os.unlink
os_remove(f, x, fault) ==
  IF fault = "remove" THEN Fault(f)
  ELSE IF At(f, x).kind \in {"file", "link"} /\ locOf(x) \in DOMAIN f
    THEN Ok([f EXCEPT ![locOf(x)] = Absent])
  ELSE Err(f)

\* os.symlink(target, x)
os_symlink(f, target, x, fault) ==
  IF fault = "symlink" THEN Fault(f)
  ELSE IF At(f, x).kind = "absent" /\ locOf(x) \in DOMAIN f
    THEN Ok([f EXCEPT ![locOf(x)] = SymLink(target)])
  ELSE Err(f)

\* shutil.copy2(src, dst), s and d being the locations src and dst resolve to
copyfile(f, s, d, dstIsDir) ==
  IF dstIsDir
    \* the copy goes into the directory, as dst/basename(src)
    THEN IF At(f, s).kind = "file" THEN Ok(f) ELSE Err(f)
  ELSE IF At(f, s).kind # "absent" /\ s = d THEN Err(f)    \* SameFileError
  ELSE IF At(f, s).kind # "file" THEN Err(f)
  ELSE IF d \in DOMAIN f THEN Ok([f EXCEPT ![d] = File(At(f, s).content)])
  ELSE Err(f)

\* shutil.copy2(src, dst) between two locations of the filesystem
copy2(f, src, dst, fault) ==
  IF fault = "copy" THEN Fault(f)
  ELSE copyfile(f, realpath(f, src), realpath(f, dst), isdir(f, dst))

(***************************************************************************)
(* The state the methods act on, and what a method returns.                *)
(***************************************************************************)
World == [fs |-> fs, backup |-> backup, repoDir |-> repoDir]

Results == {"ok", "ConfixError", "OSError"}

\* the method returned normally / raised ConfixError / raised another error
Return(w) == [w |-> w, result |-> "ok", fired |-> FALSE]
RaiseConfixError(w) == [w |-> w, result |-> "ConfixError", fired |-> FALSE]
RaiseOSError(w, fired) == [w |-> w, result |-> "OSError", fired |-> fired]

\* Confix.__existsInRepo
existsInRepo(w, filePath) == exists(w.fs, repoFileOf(w.repoDir, filePath))

\* mutant of isLinkedPath: the link's target is not compared
isLinkedPath_noTargetCheck(w, path) ==
  IF ~islink(w.fs, path) THEN FALSE
  ELSE IF ~existsInRepo(w, path) THEN FALSE
  ELSE TRUE

\* Confix.__isLinked, after its first line
isLinkedPath(w, path) ==
  IF ~islink(w.fs, path) THEN FALSE
  ELSE IF realpath(w.fs, path) # repoFileOf(w.repoDir, path) THEN FALSE
  ELSE IF ~existsInRepo(w, path) THEN FALSE
  ELSE TRUE

\* Confix.__isLinked
isLinked(w, path) == isLinkedPath(w, unmaskedOf(path))

(***************************************************************************)
(* Backups.  A backup record is a regular file under the backup root; its  *)
(* location is the backup root, the absolute original path, a dot and the  *)
(* suffix.                                                                 *)
(***************************************************************************)
\* datetime.datetime.now() at clock reading t (a tick is 30 seconds)
now(t) ==
  [year |-> 2015, month |-> 8, day |-> 2, hour |-> 0,
   minute |-> t \div 2, second |-> 30 * (t % 2)]

\* strftime("%Y-%m-%d_%H:%m:%S"): %m is the month, in both places
strftime(d) == <<d.year, d.month, d.day, d.hour, d.month, d.second>>

BackupRecord(path, suffix, c) == [path |-> path, suffix |-> suffix, content |-> c]

\* the location of a backup of filePath: the backup root, then the absolute
\* path, a dot and the suffix
backupFilePath(filePath, withTimestamp, t) ==
  [path |-> absOf(filePath),
   suffix |-> IF withTimestamp THEN strftime(now(t)) ELSE <<>>]

\* shutil.copy2(filePath, backupFilePath): the record replaces the one at the
\* same location, if any
copyToBackup(w, src, key, fault) ==
  IF fault = "backup" THEN [ok |-> FALSE, fired |-> TRUE, w |-> w]
  ELSE IF At(w.fs, src).kind # "file" THEN [ok |-> FALSE, fired |-> FALSE, w |-> w]
  ELSE [ok |-> TRUE, fired |-> FALSE,
        w |-> [w EXCEPT !.backup =
                 {b \in w.backup : [path |-> b.path, suffix |-> b.suffix] # key}
                   \cup {BackupRecord(key.path, key.suffix, At(w.fs, src).content)}]]

\* Confix.__backupFile(filePath, withTimestamp), at clock reading t
backupFile(w, filePath, withTimestamp, t, fault) ==
  copyToBackup(w, realpath(w.fs, filePath),
               backupFilePath(filePath, withTimestamp, t), fault)

(***************************************************************************)
(* The methods of Confix.                                                  *)
(***************************************************************************)
\* Confix.link, line 191: os.symlink made call s from state w
linkCreated(s, w) ==
  IF s.ok THEN Return([w EXCEPT !.fs = s.fs]) ELSE RaiseOSError(w, s.fired)

linkCreate(w, filePath, fault) ==
  linkCreated(os_symlink(w.fs, repoFileOf(w.repoDir, filePath), filePath, fault), w)

\* Confix.link, line 188: os.remove made call r from state w
linkRemoved(r, w, filePath, fault) ==
  IF ~r.ok THEN RaiseOSError(w, r.fired)
  ELSE linkCreate([w EXCEPT !.fs = r.fs], filePath, fault)

\* Confix.link, line 187: the backup made call b from state w
linkBackedUp(b, w, filePath, fault) ==
  IF ~b.ok THEN RaiseOSError(w, b.fired)
  ELSE linkRemoved(os_remove(b.w.fs, filePath, fault), b.w, filePath, fault)

\* mutant of linkAbs: the repository copy is not required
linkAbs_noRepoCheck(w, filePath, force, t, fault) ==
  IF isLinked(w, filePath) THEN Return(w)
  ELSE IF exists(w.fs, filePath) THEN
    IF force
      THEN linkBackedUp(backupFile(w, filePath, TRUE, t, fault), w, filePath, fault)
      ELSE RaiseConfixError(w)
  ELSE linkCreate(w, filePath, fault)

\* mutant of linkAbs: the original is removed before it is backed up
linkAbs_removeFirst(w, filePath, force, t, fault) ==
  IF isLinked(w, filePath) THEN Return(w)
  ELSE IF ~existsInRepo(w, filePath) THEN RaiseConfixError(w)
  ELSE IF exists(w.fs, filePath) THEN
    IF force
      THEN LET r == os_remove(w.fs, filePath, fault)
               v == [w EXCEPT !.fs = r.fs]
               b == backupFile(v, filePath, TRUE, t, fault)
           IN IF ~r.ok THEN RaiseOSError(w, r.fired)
              ELSE IF ~b.ok THEN RaiseOSError(v, b.fired)
              ELSE linkCreate(b.w, filePath, fault)
      ELSE RaiseConfixError(w)
  ELSE linkCreate(w, filePath, fault)

\* mutant of linkAbs: no early return for a path that is already linked
linkAbs_noLinkedCheck(w, filePath, force, t, fault) ==
  IF ~existsInRepo(w, filePath) THEN RaiseConfixError(w)
  ELSE IF exists(w.fs, filePath) THEN
    IF force
      THEN linkBackedUp(backupFile(w, filePath, TRUE, t, fault), w, filePath, fault)
      ELSE RaiseConfixError(w)
  ELSE linkCreate(w, filePath, fault)

\* Confix.link, lines 181-192, filePath being absolute
linkAbs(w, filePath, force, t, fault) ==
  IF isLinked(w, filePath) THEN Return(w)
  ELSE IF ~existsInRepo(w, filePath) THEN RaiseConfixError(w)
  ELSE IF exists(w.fs, filePath) THEN
    IF force
      THEN linkBackedUp(backupFile(w, filePath, TRUE, t, fault), w, filePath, fault)
      ELSE RaiseConfixError(w)
  ELSE linkCreate(w, filePath, fault)

\* Confix.link(filePath, force)
link(w, filePath, force, t, fault) == linkAbs(w, absOf(filePath), force, t, fault)

\* mutant of addCopied: add returns without calling link
addCopied_noLink(c, w, filePath, t, fault) ==
  IF ~c.ok THEN RaiseOSError(w, c.fired)
  ELSE Return([w EXCEPT !.fs = c.fs])

\* Confix.add, lines 159-161: shutil.copy2 made call c from state w
addCopied(c, w, filePath, t, fault) ==
  IF ~c.ok THEN RaiseOSError(w, c.fired)
  ELSE link([w EXCEPT !.fs = c.fs], filePath, TRUE, t, fault)

\* mutant of add: a copy already in the repository is overwritten without force
add_noConflictCheck(w, filePath, force, t, fault) ==
  IF isLinked(w, filePath) THEN Return(w)
  ELSE IF ~exists(w.fs, filePath) THEN RaiseConfixError(w)
  ELSE IF ~isfile(w.fs, filePath) THEN RaiseConfixError(w)
  ELSE IF islink(w.fs, filePath) /\ ~force THEN RaiseConfixError(w)
  ELSE addCopied(copy2(w.fs, filePath, repoFileOf(w.repoDir, filePath), fault),
                 w, filePath, t, fault)

\* mutant of add: a symbolic link is accepted without force
add_noSymlinkCheck(w, filePath, force, t, fault) ==
  IF isLinked(w, filePath) THEN Return(w)
  ELSE IF ~exists(w.fs, filePath) THEN RaiseConfixError(w)
  ELSE IF ~isfile(w.fs, filePath) THEN RaiseConfixError(w)
  ELSE IF exists(w.fs, repoFileOf(w.repoDir, filePath)) /\ ~force THEN RaiseConfixError(w)
  ELSE addCopied(copy2(w.fs, filePath, repoFileOf(w.repoDir, filePath), fault),
                 w, filePath, t, fault)

\* mutant of add: no early return for a path that is already linked
add_noLinkedCheck(w, filePath, force, t, fault) ==
  IF ~exists(w.fs, filePath) THEN RaiseConfixError(w)
  ELSE IF ~isfile(w.fs, filePath) THEN RaiseConfixError(w)
  ELSE IF exists(w.fs, repoFileOf(w.repoDir, filePath)) /\ ~force THEN RaiseConfixError(w)
  ELSE IF islink(w.fs, filePath) /\ ~force THEN RaiseConfixError(w)
  ELSE addCopied(copy2(w.fs, filePath, repoFileOf(w.repoDir, filePath), fault),
                 w, filePath, t, fault)

\* Confix.add(filePath, force)
add(w, filePath, force, t, fault) ==
  IF isLinked(w, filePath) THEN Return(w)
  ELSE IF ~exists(w.fs, filePath) THEN RaiseConfixError(w)
  ELSE IF ~isfile(w.fs, filePath) THEN RaiseConfixError(w)
  ELSE IF exists(w.fs, repoFileOf(w.repoDir, filePath)) /\ ~force THEN RaiseConfixError(w)
  ELSE IF islink(w.fs, filePath) /\ ~force THEN RaiseConfixError(w)
  ELSE addCopied(copy2(w.fs, filePath, repoFileOf(w.repoDir, filePath), fault),
                 w, filePath, t, fault)

\* Confix.rm, line 171: os.remove made call r from state w
rmRemoved(r, w) ==
  IF r.ok THEN Return([w EXCEPT !.fs = r.fs]) ELSE RaiseOSError(w, r.fired)

\* mutant of rm: a linked path is not refused
rm_noLinkedCheck(w, filePath, fault) ==
  IF ~existsInRepo(w, filePath) THEN RaiseConfixError(w)
  ELSE rmRemoved(os_remove(w.fs, repoFileOf(w.repoDir, filePath), fault), w)

\* Confix.rm(filePath)
rm(w, filePath, fault) ==
  IF isLinked(w, filePath) THEN RaiseConfixError(w)
  ELSE IF ~existsInRepo(w, filePath) THEN RaiseConfixError(w)
  ELSE rmRemoved(os_remove(w.fs, repoFileOf(w.repoDir, filePath), fault), w)

\* Confix.unlink, line 202: shutil.copy2 made call c from state w
unlinkCopied(c, w) ==
  IF c.ok THEN Return([w EXCEPT !.fs = c.fs]) ELSE RaiseOSError(w, c.fired)

\* mutant of unlinkRemoved: the repository file is not copied back
unlinkRemoved_noCopy(r, w, symlink, fault) ==
  IF ~r.ok THEN RaiseOSError(w, r.fired)
  ELSE Return([w EXCEPT !.fs = r.fs])

\* mutant of unlinkRemoved: the repository file is moved back, not copied
unlinkRemoved_move(r, w, symlink, fault) ==
  IF ~r.ok THEN RaiseOSError(w, r.fired)
  ELSE LET c == copy2(r.fs, repoFileOf(w.repoDir, symlink), symlink, fault)
       IN IF ~c.ok THEN RaiseOSError([w EXCEPT !.fs = r.fs], c.fired)
          ELSE Return([w EXCEPT !.fs = [c.fs EXCEPT ![repoFileOf(w.repoDir, symlink)] = Absent]])

\* Confix.unlink, line 201: os.unlink made call r from state w
unlinkRemoved(r, w, symlink, fault) ==
  IF ~r.ok THEN RaiseOSError(w, r.fired)
  ELSE unlinkCopied(copy2(r.fs, repoFileOf(w.repoDir, symlink), symlink, fault),
                    [w EXCEPT !.fs = r.fs])

\* Confix.unlink(symlink)
unlink(w, symlink, fault) ==
  IF ~isLinked(w, symlink) THEN RaiseConfixError(w)
  ELSE unlinkRemoved(os_remove(w.fs, symlink, fault), w, symlink, fault)

(***************************************************************************)
(* merge.  The merge tool is a program outside the tracked locations; what *)
(* it does to the two files it is given is its own and is not modelled.    *)
(* A result of merge also tells whether the tool was called.               *)
(***************************************************************************)
\* MERGE_TOOL as __createDefaultConfig writes it, a program that exists, and
\* one that does not
NoTool == <<>>
GoodTool == <<"/", "t">>
MissingTool == <<"/", "n">>
MergeTools == {NoTool, GoodTool, MissingTool}

\* the programs that exist
Programs == {GoodTool}

\* what subprocess.call returns
ExitCodes == {0, 1}

Called(r, called) == [w |-> r.w, result |-> r.result, fired |-> r.fired, called |-> called]

\* mutant of __merge: the tool is called without testing that it exists
\* (the shell then returns 127)
merge_noToolCheck(w, tool, filePath1, filePath2, exit) ==
  IF tool = NoTool THEN Called(RaiseConfixError(w), FALSE)
  ELSE IF exit # 0 \/ ~(tool \in Programs \/ exists(w.fs, tool))
    THEN Called(RaiseConfixError(w), TRUE)
  ELSE Called(Return(w), TRUE)

\* Confix.__merge(filePath1, filePath2), exit being what the tool returns
__merge(w, tool, filePath1, filePath2, exit) ==
  IF tool = NoTool THEN Called(RaiseConfixError(w), FALSE)
  ELSE IF ~(tool \in Programs \/ exists(w.fs, tool)) THEN Called(RaiseConfixError(w), FALSE)
  ELSE IF exit # 0 THEN Called(RaiseConfixError(w), TRUE)
  ELSE Called(Return(w), TRUE)

\* Confix.merge(filePath)
merge(w, tool, filePath, exit) ==
  IF ~exists(w.fs, filePath) THEN Called(RaiseConfixError(w), FALSE)
  ELSE IF ~exists(w.fs, repoFileOf(w.repoDir, filePath)) THEN Called(RaiseConfixError(w), FALSE)
  ELSE __merge(w, tool, filePath, repoFileOf(w.repoDir, filePath), exit)

(***************************************************************************)
(* list.                                                                   *)
(***************************************************************************)
\* the files os.walk(repoDir) yields: every entry that is not a directory
walk(w) ==
  {x \in DOMAIN w.fs : /\ startswith(x, w.repoDir \o <<Sep>>)
                       /\ At(w.fs, x).kind # "absent"
                       /\ ~isdir(w.fs, x)}

\* os.path.join(root, file)[len(self.__repoDir):]
confixFile(w, x) == from(x, Len(w.repoDir))

\* mutant of list: every file is reported as linked
list_allLinked(w) == {<<confixFile(w, x), TRUE>> : x \in walk(w)}

\* Confix.list(): the entries [confixFile, isLinked], as a set
list(w) == {<<confixFile(w, x), isLinked(w, confixFile(w, x))>> : x \in walk(w)}

(***************************************************************************)
(* The state machine.                                                      *)
(***************************************************************************)
Call(op, p, force, fault, r) ==
  [op |-> op, path |-> p, force |-> force, fault |-> fault, result |-> r.result,
   pre |-> World, n |-> last.n + 1]

\* the environment fails a call only if the method makes that call
Fires(fault, r) == (fault # "none") = r.fired

Commit(op, p, force, fault, r) ==
  /\ last.n < MaxOps
  /\ Fires(fault, r)
  /\ fs' = r.w.fs
  /\ backup' = r.w.backup
  /\ repoDir' = r.w.repoDir
  /\ last' = Call(op, p, force, fault, r)
  /\ UNCHANGED mergeTool

Add ==
  \E p \in Paths, force \in BOOLEAN, t \in Instants, fault \in Faults :
    Commit("add", p, force, fault, add(World, p, force, t, fault))

Link ==
  \E p \in Paths, force \in BOOLEAN, t \in Instants, fault \in Faults :
    Commit("link", p, force, fault, link(World, p, force, t, fault))

Unlink ==
  \E p \in Paths, fault \in Faults :
    Commit("unlink", p, FALSE, fault, unlink(World, p, fault))

Rm ==
  \E p \in Paths, fault \in Faults :
    Commit("rm", p, FALSE, fault, rm(World, p, fault))

\* The filesystems the model starts from.  PathA is the path under study: it
\* is absent, a regular file, a directory, a symbolic link to PathB (whatever
\* PathB is) or a symbolic link to its repository path; its repository path
\* holds nothing or a regular file.  PathB is a second tracked path: absent, a
\* regular file, a directory or a symbolic link to its repository path.
UserEntries(p) ==
  IF p = PathA
    THEN {Absent, Dir} \cup {File(c) : c \in Contents}
           \cup {SymLink(PathB), SymLink(repoFileOf(normpath(RepoRoot), PathA))}
    ELSE {Absent, Dir, File("c2"), SymLink(repoFileOf(normpath(RepoRoot), p))}

RepoEntries(p) ==
  IF p = PathA THEN {Absent} \cup {File(c) : c \in Contents}
  ELSE {Absent, File("c2")}

InitFs ==
  {f \in [Locs -> {Absent, Dir} \cup {File(c) : c \in Contents}
                    \cup {SymLink(x) : x \in Locs}] :
     \A p \in Paths : /\ f[p] \in UserEntries(p)
                      /\ f[repoFileOf(normpath(RepoRoot), p)] \in RepoEntries(p)}

\* after construction and setRepo (as TestConfix.setUp does): the repository is
\* configured, nothing has been backed up, and the filesystem is any the user
\* may have
Init ==
  /\ repoDir = normpath(RepoRoot)
  /\ mergeTool = NoTool
  /\ backup = {}
  /\ fs \in InitFs
  /\ last = [op |-> "none", path |-> <<>>, force |-> FALSE, fault |-> "none",
             result |-> "ok", pre |-> World, n |-> 0]

Next == Add \/ Link \/ Unlink \/ Rm

Spec == Init /\ [][Next]_vars

(***************************************************************************)
(* merge, list and setMergeTool as actions.  FullSpec adds merge and list  *)
(* to the file operations, with a merge tool configured that exists (as    *)
(* test_merge_ok configures one); MergeSpec is merge under every           *)
(* configuration of the merge tool, from the default one.                  *)
(***************************************************************************)
Merge ==
  \E p \in Paths, exit \in ExitCodes :
    LET r == merge(World, mergeTool, p, exit) IN
    /\ last.n < MaxOps
    /\ fs' = r.w.fs
    /\ backup' = r.w.backup
    /\ repoDir' = r.w.repoDir
    /\ last' = [called |-> r.called, exit |-> IF r.called THEN exit ELSE 0]
                  @@ Call("merge", p, FALSE, "none", r)
    /\ UNCHANGED mergeTool

List ==
  /\ last.n < MaxOps
  /\ last' = [out |-> list(World)] @@ Call("list", <<>>, FALSE, "none", Return(World))
  /\ UNCHANGED <<fs, backup, repoDir, mergeTool>>

\* Confix.setMergeTool(mergeToolPath)
SetMergeTool ==
  \E tool \in MergeTools :
    /\ last.n < MaxOps
    /\ mergeTool' = tool
    /\ last' = Call("setMergeTool", tool, FALSE, "none", Return(World))
    /\ UNCHANGED <<fs, backup, repoDir>>

FullInit ==
  /\ repoDir = normpath(RepoRoot)
  /\ mergeTool = GoodTool
  /\ backup = {}
  /\ fs \in InitFs
  /\ last = [op |-> "none", path |-> <<>>, force |-> FALSE, fault |-> "none",
             result |-> "ok", pre |-> World, n |-> 0]

FullNext == Next \/ Merge \/ List

FullSpec == FullInit /\ [][FullNext]_vars

MergeNext == SetMergeTool \/ Merge

MergeSpec == Init /\ [][MergeNext]_vars

(***************************************************************************)
(* The link-state inspector, __isLinked, called on its own, for a path     *)
(* given as it is or masked.  DirSpec starts from the filesystems of Spec  *)
(* and from those in which the repository path of PathA is a directory     *)
(* (as it is when a file below PathA is tracked).                          *)
(***************************************************************************)
IsLinked ==
  \E p \in Paths \cup MaskedPaths :
    /\ last.n < MaxOps
    /\ last' = [out |-> isLinked(World, p)]
                  @@ Call("isLinked", p, FALSE, "none", Return(World))
    /\ UNCHANGED <<fs, backup, repoDir, mergeTool>>

DirInitFs ==
  InitFs \cup {[f EXCEPT ![repoFileOf(normpath(RepoRoot), PathA)] = Dir] : f \in InitFs}

DirInit ==
  /\ repoDir = normpath(RepoRoot)
  /\ mergeTool = NoTool
  /\ backup = {}
  /\ fs \in DirInitFs
  /\ last = [op |-> "none", path |-> <<>>, force |-> FALSE, fault |-> "none",
             result |-> "ok", pre |-> World, n |-> 0]

DirNext == Next \/ IsLinked

DirSpec == DirInit /\ [][DirNext]_vars

(***************************************************************************)
(* The file operations with no repository configured: the engine was       *)
(* constructed on a fresh root directory, whose default configuration has  *)
(* REPO empty, and setRepo was not called (as in TestConfixCmdLine's       *)
(* test_execRm).  The repository path of a tracked path is then a relative *)
(* path, which the operating system takes relative to the working          *)
(* directory.                                                              *)
(***************************************************************************)
NoRepoLocs == Paths \cup {locOf(repoFileOf(NoRepo, p)) : p \in Paths}

NoRepoEntries(p) ==
  IF p = PathA
    THEN {Absent, Dir} \cup {File(c) : c \in Contents} \cup {SymLink(PathB)}
    ELSE {Absent, Dir, File("c2")}

NoRepoInitFs ==
  {f \in [NoRepoLocs -> {Absent, Dir, SymLink(PathB)} \cup {File(c) : c \in Contents}] :
     \A p \in Paths : /\ f[p] \in NoRepoEntries(p)
                      /\ f[locOf(repoFileOf(NoRepo, p))] \in RepoEntries(p)}

NoRepoInit ==
  /\ repoDir = NoRepo
  /\ mergeTool = NoTool
  /\ backup = {}
  /\ fs \in NoRepoInitFs
  /\ last = [op |-> "none", path |-> <<>>, force |-> FALSE, fault |-> "none",
             result |-> "ok", pre |-> World, n |-> 0]

NoRepoSpec == NoRepoInit /\ [][Next]_vars

(***************************************************************************)
(* The path mapping on its own.  The absolute paths it is applied to are   *)
(* a slash followed by at most MaxPieces pieces; the pieces make paths     *)
(* outside the home directory, the home directory itself, paths below it,  *)
(* paths that only begin with its characters, paths that hold the          *)
(* placeholder literally, and paths that are not normalized.  `last` holds *)
(* the call: the function, its argument, what it returned, and the path    *)
(* the argument was derived from.                                          *)
(***************************************************************************)
MaxPieces == 3

Pieces == {<<"/">>, <<"h">>, <<"a">>, <<".">>, <<"$", "H", "O", "M", "E">>}

RECURSIVE Tails(_)
Tails(n) ==
  IF n = 0 THEN {<<>>}
  ELSE LET shorter == Tails(n - 1)
       IN shorter \cup {x \o pc : x \in shorter, pc \in Pieces}

AbsPaths == {<<Sep>> \o x : x \in Tails(MaxPieces)}

PathCall(op, arg, res, orig) == [op |-> op, path |-> arg, result |-> res, of |-> orig]

\* Confix.__maskHome(p)
MaskHome ==
  /\ \E p \in AbsPaths : last' = PathCall("maskHome", p, maskHome(p), p)
  /\ UNCHANGED <<fs, backup, repoDir, mergeTool>>

\* Confix.__unmaskHome, of what __maskHome returned
UnmaskHome ==
  /\ last.op = "maskHome"
  /\ last' = PathCall("unmaskHome", last.result, unmaskHome(last.result), last.of)
  /\ UNCHANGED <<fs, backup, repoDir, mergeTool>>

\* Confix.__getRepoFilePath(p)
GetRepoFilePath ==
  /\ \E p \in AbsPaths :
        last' = PathCall("getRepoFilePath", p, getRepoFilePath(repoDir, p), p)
  /\ UNCHANGED <<fs, backup, repoDir, mergeTool>>

PathInit ==
  /\ repoDir = normpath(RepoRoot)
  /\ mergeTool = NoTool
  /\ backup = {}
  /\ fs = [x \in Locs |-> Absent]
  /\ last = PathCall("none", <<>>, <<>>, <<>>)

PathNext == MaskHome \/ UnmaskHome \/ GetRepoFilePath

PathSpec == PathInit /\ [][PathNext]_vars

(***************************************************************************)
(* Vocabulary of the properties.  Pre is the state before the last call,   *)
(* World the state it left.                                                *)
(***************************************************************************)
Pre == last.pre

\* what is at path p, and at p's repository path
EntryAt(w, p) == At(w.fs, p)
RepoPathOf(w, p) == repoFileOf(w.repoDir, p)
RepoCopy(w, p) == At(w.fs, RepoPathOf(w, p))

\* the content of the file p resolves to
ContentOf(w, p) == At(w.fs, realpath(w.fs, p)).content

\* the Linked state: p is a symbolic link, it resolves to p's repository
\* path, and a regular file is there
Linked(w, p) ==
  /\ EntryAt(w, p).kind = "link"
  /\ realpath(w.fs, p) = RepoPathOf(w, p)
  /\ RepoCopy(w, p).kind = "file"

\* something of p is left: an entry at p or a repository copy
Kept(w, p) == EntryAt(w, p).kind # "absent" \/ RepoCopy(w, p).kind # "absent"

HasBackupOf(w, p, c) == \E b \in w.backup : b.path = p /\ b.content = c

(***************************************************************************)
(* C1.  No loss: if add, link, unlink or rm (either force value) starts    *)
(* where the entry at p or the repository copy of p exists, then the state *)
(* it leaves, returning or raising, still has one of the two.              *)
(*                                                                         *)
(* As stated, for all four operations, this fails: rm(p) on an absent p    *)
(* whose repository copy exists removes that copy.                         *)
(***************************************************************************)
C1_NoLoss_Original ==
  (last.op \in {"add", "link", "unlink", "rm"} /\ Kept(Pre, last.path))
    => Kept(World, last.path)

\* C1, amended: add, link and unlink (either force value, returning or
\* raising) never leave p with neither an entry at p nor a repository copy if
\* one of them existed before; nor does rm when an entry exists at p.
C1_NoLoss ==
  /\ (last.op \in {"add", "link", "unlink"} /\ Kept(Pre, last.path))
       => Kept(World, last.path)
  /\ (last.op = "rm" /\ EntryAt(Pre, last.path).kind # "absent")
       => EntryAt(World, last.path) = EntryAt(Pre, last.path)

\* a forced link whose os.symlink failed after the original was removed: the
\* repository copy is what is left
C1_Witness ==
  /\ last.op = "link" /\ last.force /\ last.result = "OSError"
  /\ EntryAt(Pre, last.path).kind = "file"
  /\ EntryAt(World, last.path).kind = "absent"
  /\ RepoCopy(World, last.path).kind = "file"

(***************************************************************************)
(* C2.  link(p, force=true) on an existing entry that is not Linked backs  *)
(* up, then removes, then creates the link: in every state the call can    *)
(* leave (a failing step included), if the entry at p is no longer the     *)
(* original one, then a backup record of p with p's prior content exists   *)
(* or the symbolic link to the repository copy is at p.  The forced link   *)
(* that add makes is included.                                             *)
(***************************************************************************)
C2_BackupBeforeRemove ==
  ( /\ (last.op = "link" /\ last.force) \/ last.op = "add"
    /\ exists(Pre.fs, last.path)
    /\ ~Linked(Pre, last.path)
    /\ EntryAt(World, last.path) # EntryAt(Pre, last.path) )
  => \/ HasBackupOf(World, last.path, ContentOf(Pre, last.path))
     \/ EntryAt(World, last.path) = SymLink(RepoPathOf(World, last.path))

\* the call stopped between the removal and the creation of the link
C2_Witness ==
  /\ last.op = "link" /\ last.force /\ last.fault = "symlink"
  /\ EntryAt(Pre, last.path).kind = "file"
  /\ EntryAt(World, last.path).kind = "absent"
  /\ HasBackupOf(World, last.path, ContentOf(Pre, last.path))
  /\ ~HasBackupOf(Pre, last.path, ContentOf(Pre, last.path))

(***************************************************************************)
(* C3.  With a repository configured, after add(p) returns success for a   *)
(* regular file p that is not a link and has no repository copy, the       *)
(* repository holds a file at p's repository path with the content p had,  *)
(* p is a symbolic link resolving to it, and p classifies as Linked.       *)
(***************************************************************************)
C3_AddLinks ==
  ( /\ last.op = "add" /\ last.result = "ok"
    /\ Pre.repoDir \in RepoDirs
    /\ EntryAt(Pre, last.path).kind = "file"
    /\ RepoCopy(Pre, last.path).kind = "absent" )
  => /\ RepoCopy(World, last.path) = File(EntryAt(Pre, last.path).content)
     /\ EntryAt(World, last.path).kind = "link"
     /\ realpath(fs, last.path) = RepoPathOf(World, last.path)
     /\ isLinked(World, last.path)

C3_Witness ==
  /\ last.op = "add" /\ last.result = "ok" /\ ~last.force
  /\ EntryAt(Pre, last.path) = File("c1")
  /\ RepoCopy(Pre, last.path).kind = "absent"
  /\ RepoCopy(World, last.path) = File("c1")
  /\ EntryAt(World, last.path).kind = "link"

(***************************************************************************)
(* C4.  Conflict detection: if a repository copy of p exists and p is a    *)
(* plain file (so not Linked), add(p) without force raises ConfixError and *)
(* leaves the file at p, the repository copy and the backups unchanged.    *)
(***************************************************************************)
C4_AddConflict ==
  ( /\ last.op = "add" /\ ~last.force
    /\ EntryAt(Pre, last.path).kind = "file"
    /\ RepoCopy(Pre, last.path).kind = "file" )
  => /\ last.result = "ConfixError"
     /\ World = Pre

\* the two copies differ, and still do after the call
C4_Witness ==
  /\ last.op = "add" /\ ~last.force /\ last.result = "ConfixError"
  /\ EntryAt(Pre, last.path) = File("c1")
  /\ RepoCopy(Pre, last.path) = File("c2")
  /\ EntryAt(World, last.path) = File("c1")
  /\ RepoCopy(World, last.path) = File("c2")

(***************************************************************************)
(* C5.  add(p) raises ConfixError and leaves the filesystem (the entry at  *)
(* p, the repository, the backups) unmodified when p does not exist, when  *)
(* p is a directory, and - force being false - when p is a symbolic link   *)
(* that is not Linked, whatever it points to.                              *)
(***************************************************************************)
C5_AddRejects ==
  ( /\ last.op = "add"
    /\ \/ EntryAt(Pre, last.path).kind \in {"absent", "dir"}
       \/ /\ ~last.force
          /\ EntryAt(Pre, last.path).kind = "link"
          /\ ~Linked(Pre, last.path) )
  => /\ last.result = "ConfixError"
     /\ World = Pre

\* add without force of a symbolic link to a regular file elsewhere
C5_Witness ==
  /\ last.op = "add" /\ ~last.force /\ last.result = "ConfixError"
  /\ EntryAt(Pre, last.path).kind = "link"
  /\ isfile(Pre.fs, last.path)
  /\ RepoCopy(Pre, last.path).kind = "absent"
  /\ ~Linked(Pre, last.path)

(***************************************************************************)
(* C6.  unlink(p) on a Linked p leaves p a regular file, not a link, with  *)
(* the content of the repository copy, and leaves the repository copy as   *)
(* it was (also when a step of it fails).                                  *)
(***************************************************************************)
C6_UnlinkRestores ==
  (last.op = "unlink" /\ Linked(Pre, last.path))
  => /\ RepoCopy(World, last.path) = RepoCopy(Pre, last.path)
     /\ last.fault = "none"
          => /\ last.result = "ok"
             /\ EntryAt(World, last.path) = File(RepoCopy(Pre, last.path).content)

C6_Witness ==
  /\ last.op = "unlink" /\ last.result = "ok"
  /\ Linked(Pre, last.path)
  /\ EntryAt(World, last.path) = File("c2")
  /\ RepoCopy(World, last.path) = File("c2")

(***************************************************************************)
(* C7.  unlink(p) raises ConfixError and changes nothing when p is not     *)
(* Linked: p absent, p a plain file (or a directory), p a symbolic link    *)
(* with no repository copy of p, p a symbolic link to some other file      *)
(* while a repository copy of p exists.                                    *)
(***************************************************************************)
C7_UnlinkRejects ==
  (last.op = "unlink" /\ ~Linked(Pre, last.path))
  => /\ last.result = "ConfixError"
     /\ World = Pre

\* the link points to another file, and a repository copy of p exists
C7_Witness ==
  /\ last.op = "unlink" /\ last.result = "ConfixError"
  /\ EntryAt(Pre, last.path).kind = "link"
  /\ isfile(Pre.fs, last.path)
  /\ realpath(Pre.fs, last.path) # RepoPathOf(Pre, last.path)
  /\ RepoCopy(Pre, last.path).kind = "file"
  /\ World = Pre

(***************************************************************************)
(* C8.  rm(p) raises ConfixError and changes nothing when p is Linked or   *)
(* no repository copy of p exists; otherwise (the environment failing no   *)
(* call) it succeeds, the repository copy is gone and all else, the entry  *)
(* at p included, is as before.  And in add(p); rm(p); unlink(p); rm(p),   *)
(* from any state in which that add succeeds, the first rm raises          *)
(* ConfixError and the second succeeds.                                    *)
(***************************************************************************)
RmSequence(p, force, t) ==
  LET a == add(World, p, force, t, "none")
      r1 == rm(a.w, p, "none")
      u == unlink(r1.w, p, "none")
      r2 == rm(u.w, p, "none")
  IN a.result = "ok"
       => /\ r1.result = "ConfixError" /\ r1.w = a.w
          /\ u.result = "ok"
          /\ r2.result = "ok" /\ RepoCopy(r2.w, p).kind = "absent"

C8_Rm ==
  /\ (last.op = "rm" /\ (Linked(Pre, last.path) \/ RepoCopy(Pre, last.path).kind = "absent"))
       => (last.result = "ConfixError" /\ World = Pre)
  /\ (last.op = "rm" /\ ~Linked(Pre, last.path) /\ RepoCopy(Pre, last.path).kind = "file")
       => /\ last.fault = "none" => last.result = "ok"
          /\ last.result = "ok"
               => /\ RepoCopy(World, last.path).kind = "absent"
                  /\ World = [Pre EXCEPT !.fs[RepoPathOf(Pre, last.path)] = Absent]
          /\ EntryAt(World, last.path) = EntryAt(Pre, last.path)
  /\ \A p \in Paths, force \in BOOLEAN, t \in Instants : RmSequence(p, force, t)

\* rm of a path that unlink has left a plain file equal to its repository copy
C8_Witness ==
  /\ last.op = "rm" /\ last.result = "ok"
  /\ EntryAt(Pre, last.path).kind = "file"
  /\ RepoCopy(Pre, last.path) = EntryAt(Pre, last.path)
  /\ RepoCopy(World, last.path).kind = "absent"
  /\ EntryAt(World, last.path).kind = "file"

(***************************************************************************)
(* C9.  link(p, force) raises ConfixError and leaves the filesystem and    *)
(* the backups unchanged (a) for either force value when the repository    *)
(* has no copy of p, and (b) when force is false, the repository has a     *)
(* copy, p is not Linked and any entry exists at p: a regular file, a      *)
(* directory, a symbolic link, also one whose target does not exist.       *)
(* (Stated of the calls in which the environment fails no system call.)    *)
(*                                                                         *)
(* The code contradicts (b) for a symbolic link whose target does not      *)
(* exist: os.path.exists follows the link and reports False, so link goes  *)
(* on to os.symlink, which raises FileExistsError, not ConfixError.        *)
(***************************************************************************)
C9_LinkRejects ==
  ( /\ last.op = "link" /\ last.fault = "none"
    /\ \/ RepoCopy(Pre, last.path).kind = "absent"
       \/ /\ ~last.force
          /\ RepoCopy(Pre, last.path).kind = "file"
          /\ ~Linked(Pre, last.path)
          /\ EntryAt(Pre, last.path).kind # "absent" )
  => /\ last.result = "ConfixError"
     /\ World = Pre

LinkTwice(p, f1, f2, t) ==
  LET l1 == link(World, p, f1, t, "none")
      l2 == link(l1.w, p, f2, t, "none")
  IN (EntryAt(World, p).kind = "absent" /\ RepoCopy(World, p).kind = "file")
       => /\ l1.result = "ok" /\ Linked(l1.w, p)
          /\ l2.result = "ok" /\ l2.w = l1.w

C11_LinkIdempotent ==
  /\ (last.op = "link" /\ Linked(Pre, last.path))
       => (last.result = "ok" /\ World = Pre)
  /\ \A p \in Paths, f1 \in BOOLEAN, f2 \in BOOLEAN, t \in Instants :
        LinkTwice(p, f1, f2, t)

\* a forced link of a Linked path, in a state where that leaves backups as
\* they were
C11_Witness ==
  /\ last.op = "link" /\ last.force /\ last.result = "ok"
  /\ Linked(Pre, last.path)
  /\ World = Pre
  /\ last.n = 2

(***************************************************************************)
(* C12.  Path-mapping round trip: for every absolute path p (outside the   *)
(* home directory, equal to it, below it, or only beginning with its       *)
(* characters), unmasking the masked form of p yields normpath(p).         *)
(*                                                                         *)
(* The code contradicts it: __maskHome tests str.startswith(homeDir), so a *)
(* path that only begins with the characters of the home directory is      *)
(* masked as if it were below it, and __unmaskHome replaces every          *)
(* occurrence of the placeholder, also one the path held literally.        *)
(***************************************************************************)
C12_RoundTrip ==
  last.op = "unmaskHome" => last.result = normpath(last.of)

(***************************************************************************)
(* C13.  Backup records are append-only and non-overwriting: no operation  *)
(* overwrites, modifies or deletes a backup record made earlier, and two   *)
(* link(p, force=true) backups of the same path taken at instants that     *)
(* differ (in year, month, day, hour, minute or second) are stored under   *)
(* distinct backup paths.                                                  *)
(*                                                                         *)
(* The code contradicts it: the suffix is formatted with %m (the month)    *)
(* where the minute was meant, so two instants of the same hour that       *)
(* differ in the minute only give the same backup path, and the second     *)
(* backup overwrites the first.                                            *)
(***************************************************************************)
BackupTwice(p, t1, t2) ==
  LET l1 == link(World, p, TRUE, t1, "none")
      u == unlink(l1.w, p, "none")
      l2 == link(u.w, p, TRUE, t2, "none")
  IN ( /\ now(t1) # now(t2)
       /\ l1.result = "ok" /\ l1.w.backup # World.backup
       /\ u.result = "ok" /\ l2.result = "ok" )
     => \A b \in l1.w.backup : b \in l2.w.backup

C13_BackupsKept ==
  /\ last.op \in {"add", "link", "unlink", "rm"}
       => \A b \in Pre.backup : b \in World.backup
  /\ \A p \in Paths, t1 \in Instants, t2 \in Instants :
        /\ now(t1) # now(t2)
             => backupFilePath(p, TRUE, t1) # backupFilePath(p, TRUE, t2)
        /\ BackupTwice(p, t1, t2)

(***************************************************************************)
(* C14.  Repository-copy lifecycle, over every sequence of add, link,      *)
(* unlink, rm, merge and list: the repository copy of a path q comes into  *)
(* existence only through add(q); the content of an existing copy changes  *)
(* only through a forced add(q) (the operation that runs the backup and    *)
(* relink path), never through a non-forced add or link, unlink, rm of     *)
(* another path, merge or list; and it ceases to exist only through a      *)
(* successful rm(q).                                                       *)
(***************************************************************************)
C14_RepoCopyLifecycle ==
  \A q \in Paths :
    /\ (RepoCopy(Pre, q).kind = "absent" /\ RepoCopy(World, q).kind # "absent")
         => (last.op = "add" /\ last.path = q)
    /\ ( /\ RepoCopy(Pre, q).kind # "absent" /\ RepoCopy(World, q).kind # "absent"
         /\ RepoCopy(World, q) # RepoCopy(Pre, q) )
         => (last.op = "add" /\ last.force /\ last.path = q)
    /\ (RepoCopy(Pre, q).kind # "absent" /\ RepoCopy(World, q).kind = "absent")
         => (last.op = "rm" /\ last.result = "ok" /\ last.path = q)

\* a forced add has replaced the content of the repository copy
C14_Witness ==
  /\ last.op = "add" /\ last.force /\ last.result = "ok"
  /\ RepoCopy(Pre, last.path) = File("c2")
  /\ RepoCopy(World, last.path) = File("c1")
  /\ \A q \in Paths \ {last.path} : RepoCopy(World, q) = RepoCopy(Pre, q)

(***************************************************************************)
(* C15.  list() returns exactly one entry per regular file of the          *)
(* repository, and the path of each entry is the original absolute path    *)
(* of that file (its repository-relative path with the home placeholder    *)
(* substituted back), for tracked files outside the home directory and     *)
(* for tracked files under it.                                             *)
(*                                                                         *)
(* The code contradicts it for files under the home directory: list        *)
(* returns the repository-relative path as it is, placeholder included,    *)
(* and unmasks it only inside __isLinked.                                  *)
(***************************************************************************)
Tracked(w) == {p \in Paths : RepoCopy(w, p).kind = "file"}

C15_ListPaths ==
  last.op = "list"
    => /\ Cardinality(last.out) = Cardinality(Tracked(Pre))
       /\ {e[1] : e \in last.out} = {absOf(p) : p \in Tracked(Pre)}

(***************************************************************************)
(* C16.  In every reachable state, list() has one entry for each tracked   *)
(* file and its isLinked flag is true exactly when the file's original     *)
(* path is Linked.  So with two files tracked, one whose link was replaced *)
(* by a plain file (or removed) and one still linked, list() reports the   *)
(* first as not linked and the second as linked.                           *)
(***************************************************************************)
\* the entries of a list() result that are about path p
EntriesOf(w, out, p) == {e \in out : e[1] = confixFile(w, RepoPathOf(w, p))}

C16_ListFlags ==
  /\ \A p \in Tracked(World) :
        EntriesOf(World, list(World), p) = {<<confixFile(World, RepoPathOf(World, p)), Linked(World, p)>>}
  /\ last.op = "list"
       => \A p \in Tracked(Pre) : \A e \in EntriesOf(Pre, last.out, p) : e[2] = Linked(Pre, p)

\* list() with both paths tracked, one a plain file and the other linked
C16_Witness ==
  /\ last.op = "list"
  /\ Tracked(Pre) = Paths
  /\ \E p \in Paths, q \in Paths :
        /\ EntryAt(Pre, p).kind \in {"file", "absent"} /\ Linked(Pre, q)
        /\ \E e \in EntriesOf(Pre, last.out, p) : e[2] = FALSE
        /\ \E e \in EntriesOf(Pre, last.out, q) : e[2] = TRUE

(***************************************************************************)
(* C17.  merge(p) raises ConfixError without calling the external tool     *)
(* when p does not exist, when p has no repository counterpart, when no    *)
(* merge tool is configured, or when the configured tool does not exist;   *)
(* when the tool is called, a non-zero exit is raised as ConfixError and a *)
(* zero exit makes merge return normally; in every case merge itself       *)
(* changes neither p, the repository copy nor the backups.                 *)
(***************************************************************************)
ToolExists(w, tool) == tool \in Programs \/ exists(w.fs, tool)

C17_Merge ==
  last.op = "merge"
    => /\ World = Pre
       /\ ( \/ ~exists(Pre.fs, last.path)
            \/ ~exists(Pre.fs, RepoPathOf(Pre, last.path))
            \/ mergeTool = NoTool
            \/ ~ToolExists(Pre, mergeTool) )
          => (last.result = "ConfixError" /\ ~last.called)
       /\ ( /\ exists(Pre.fs, last.path)
            /\ exists(Pre.fs, RepoPathOf(Pre, last.path))
            /\ mergeTool # NoTool
            /\ ToolExists(Pre, mergeTool) )
          => last.called
       /\ last.called
          => /\ last.exit # 0 => last.result = "ConfixError"
             /\ last.exit = 0 => last.result = "ok"

\* the tool was called on two files that differ, and returned 0
C17_Witness ==
  /\ last.op = "merge" /\ last.called /\ last.exit = 0 /\ last.result = "ok"
  /\ mergeTool = GoodTool
  /\ EntryAt(Pre, last.path) = File("c1")
  /\ RepoCopy(Pre, last.path) = File("c2")
  /\ World = Pre

(***************************************************************************)
(* C18.  classify is exact: for every path p, given unmasked or masked     *)
(* with the home placeholder, and every filesystem state, the inspector    *)
(* reports Linked if and only if p is a symbolic link, its resolved target *)
(* is p's repository path, and a regular file (not a directory) is at      *)
(* that repository path.                                                   *)
(*                                                                         *)
(* The code contradicts it: __existsInRepo is os.path.exists, which is     *)
(* true of a directory, so a symbolic link to a directory at its           *)
(* repository path is reported as linked.                                  *)
(***************************************************************************)
C18_ClassifyExact ==
  last.op = "isLinked" => (last.out <=> Linked(Pre, unmaskedOf(last.path)))

(***************************************************************************)
(* C19.  link(p, force=true) on an existing plain file p that has a        *)
(* repository copy succeeds and ends with p Linked, exactly one new backup *)
(* record, whose content is the content p had before the call, and the     *)
(* repository copy unchanged; also after add(p); unlink(p).                *)
(*                                                                         *)
(* The code contradicts it in the sequence the claim names: when the       *)
(* backup add made and the backup of the forced link are taken in the same *)
(* hour at instants that differ in the minute, both have the same backup   *)
(* path (see C13) and the call leaves no new record.                       *)
(***************************************************************************)
\* the backups of w2 are those of w1 and exactly one new record, of p with
\* content c
OneNewBackup(w1, w2, p, c) ==
  \E b \in w2.backup :
    /\ b \notin w1.backup
    /\ w2.backup = w1.backup \cup {b}
    /\ b.path = p /\ b.content = c

ForcedLinkAfterAdd(p, t1, t2) ==
  LET a == add(World, p, FALSE, t1, "none")
      u == unlink(a.w, p, "none")
      l == link(u.w, p, TRUE, t2, "none")
  IN (now(t1) # now(t2) /\ a.result = "ok" /\ a.w # World /\ u.result = "ok")
     => /\ l.result = "ok"
        /\ Linked(l.w, p)
        /\ RepoCopy(l.w, p) = RepoCopy(u.w, p)
        /\ OneNewBackup(u.w, l.w, p, ContentOf(u.w, p))

C19_ForcedLink ==
  /\ ( /\ last.op = "link" /\ last.force /\ last.fault = "none"
       /\ EntryAt(Pre, last.path).kind = "file"
       /\ RepoCopy(Pre, last.path).kind = "file"
       /\ \A b \in Pre.backup : b.path # last.path )
     => /\ last.result = "ok"
        /\ Linked(World, last.path)
        /\ RepoCopy(World, last.path) = RepoCopy(Pre, last.path)
        /\ OneNewBackup(Pre, World, last.path, ContentOf(Pre, last.path))
  /\ \A p \in Paths, t1 \in Instants, t2 \in Instants : ForcedLinkAfterAdd(p, t1, t2)

(***************************************************************************)
(* C20.  The path mapping is injective: two distinct normalized absolute   *)
(* paths never map to the same repository path (also when one lies under   *)
(* the home directory and the other only shares its leading characters,    *)
(* or holds the placeholder literally), so add and rm of p never touch the *)
(* repository copy of another path q.                                      *)
(*                                                                         *)
(* The code contradicts it: /h/a, /ha and /$HOME/a (the home directory     *)
(* being /h) all map to <repo>/$HOME/a.                                    *)
(***************************************************************************)
\* p is normalized and begins with one slash (normpath keeps two leading
\* slashes, which name the same files as one)
Normalized(p) == p = normpath(p) /\ ~startswith(p, <<Sep, Sep>>)

C20_Injective ==
  (last.op = "getRepoFilePath" /\ Normalized(last.path))
    => \A q \in AbsPaths :
         (Normalized(q) /\ q # last.path) => getRepoFilePath(repoDir, q) # last.result

(***************************************************************************)
(* C21.  With no repository location configured, add, link, unlink and rm  *)
(* on any path fail and leave the filesystem and the backups as they were: *)
(* nothing is copied, p is neither removed nor replaced by a symbolic      *)
(* link, and no add succeeds leaving p a symbolic link that does not       *)
(* resolve to a repository copy.                                           *)
(*                                                                         *)
(* The code contradicts it: with REPO empty the repository path is         *)
(* relative, add copies p below the working directory, backs p up, removes *)
(* it and makes p a symbolic link with that relative target, which is      *)
(* taken relative to p's directory and resolves to nothing; add returns    *)
(* success.                                                                *)
(***************************************************************************)
C21_NoRepoFails ==
  (last.op \in {"add", "link", "unlink", "rm"} /\ Pre.repoDir = NoRepo)
    => /\ last.result # "ok"
       /\ World = Pre

====
